---- MODULE Spec2Model ----
(***************************************************************************)
(* Self-relocation of a static PIE (rcrt1): the relocation engine          *)
(* dyn_reloc / inner_dyn_reloc and the bootstrap rcrt of src/src/lib.rs.   *)
(*                                                                         *)
(* Memory is one flat map from 8-byte-aligned addresses to 64-bit words.   *)
(* A 64-bit word is a tuple of four 16-bit limbs, least significant limb   *)
(* first, so that u64 arithmetic, its overflow at 2^64 and the mask        *)
(* 0x7fffffff are exact.                                                   *)
(***************************************************************************)
EXTENDS Integers, Sequences, FiniteSets, TLC

VARIABLES
  mem,              \* address -> word: the process's mapped memory
  pc,               \* position in rcrt / inner_dyn_reloc
  caller,           \* "dyn_reloc" (engine called directly) or "rcrt"
  overflow_checks,  \* build profile: TRUE = arithmetic overflow panics
  dynamic_section,  \* argument of dyn_reloc / dynv argument of rcrt
  base,             \* load bias
  dynv,             \* cursor of the dynamic-table scan
  dt_rel, dt_relsz, dt_rela, dt_relasz,
  rels, relas,      \* start of the slices built from dt_rel / dt_rela
  k,                \* index of the slice iterator over rels / relas
  sp, i, auxv_ptr, ph, phentsize, phnum,   \* locals of rcrt
  mem0,             \* history: memory when the current entry point was called
  mem1,             \* history: memory when dyn_reloc returned the first time
  calls,            \* history: completed calls of dyn_reloc
  invoked,          \* history: invocations of pre_main
  written,          \* history: addresses written by the current call
  visited,          \* history: <<table, address>> of the entries the iterators read
  applied,          \* history: <<table, address>> of the entries that were applied
  dynread,          \* history: addresses of the Dyn entries read by the scan
  examined          \* history: program headers examined by rcrt

vars == <<mem, pc, caller, overflow_checks, dynamic_section, base, dynv,
          dt_rel, dt_relsz, dt_rela, dt_relasz, rels, relas, k,
          sp, i, auxv_ptr, ph, phentsize, phnum,
          mem0, mem1, calls, invoked, written, visited, applied, dynread, examined>>

engineVars == <<dynv, dt_rel, dt_relsz, dt_rela, dt_relasz, rels, relas, k>>
rcrtVars == <<sp, i, auxv_ptr, ph, phentsize, phnum, examined>>

-----------------------------------------------------------------------------
(* 64-bit words *)

Limb == 2^16

\* the word of a small natural number (n < 2^31)
W(n) == <<n % Limb, n \div Limb, 0, 0>>

ZERO == <<0, 0, 0, 0>>

\* u64 addition: the wrapped sum and the carry out of bit 63
Add64(a, b) ==
  LET s1 == a[1] + b[1]
      s2 == a[2] + b[2] + (s1 \div Limb)
      s3 == a[3] + b[3] + (s2 \div Limb)
      s4 == a[4] + b[4] + (s3 \div Limb)
  IN  [val |-> <<s1 % Limb, s2 % Limb, s3 % Limb, s4 % Limb>>,
       carry |-> s4 \div Limb]

\* u64 subtraction: the wrapped difference and the borrow
Sub64(a, b) ==
  LET d1 == a[1] - b[1]
      d2 == a[2] - b[2] - (IF d1 < 0 THEN 1 ELSE 0)
      d3 == a[3] - b[3] - (IF d2 < 0 THEN 1 ELSE 0)
      d4 == a[4] - b[4] - (IF d3 < 0 THEN 1 ELSE 0)
  IN  [val |-> <<d1 % Limb, d2 % Limb, d3 % Limb, d4 % Limb>>,
       borrow |-> IF d4 < 0 THEN 1 ELSE 0]

\* 2^64 - n for a small natural number n > 0
WNeg(n) == Sub64(ZERO, W(n)).val

\* a < b as unsigned 64-bit integers
Lt64(a, b) == Sub64(a, b).borrow = 1

\* u64 times a small factor (m <= 2^14), wrapped
Mul64(a, m) ==
  LET p1 == a[1] * m
      p2 == a[2] * m + (p1 \div Limb)
      p3 == a[3] * m + (p2 \div Limb)
      p4 == a[4] * m + (p3 \div Limb)
  IN  <<p1 % Limb, p2 % Limb, p3 % Limb, p4 % Limb>>

\* u64 divided by a small divisor (d <= 2^14), truncating
Div64(a, d) ==
  LET c4 == a[4]
      c3 == (c4 % d) * Limb + a[3]
      c2 == (c3 % d) * Limb + a[2]
      c1 == (c2 % d) * Limb + a[1]
  IN  <<c1 \div d, c2 \div d, c3 \div d, c4 \div d>>

\* u64 modulo a small divisor
Mod64(a, d) ==
  LET c4 == a[4]
      c3 == (c4 % d) * Limb + a[3]
      c2 == (c3 % d) * Limb + a[2]
      c1 == (c2 % d) * Limb + a[1]
  IN  c1 % d

RECURSIVE BitAnd(_, _)
\* bitwise and of two naturals
BitAnd(x, y) ==
  IF x = 0 \/ y = 0 THEN 0
  ELSE (x % 2) * (y % 2) + 2 * BitAnd(x \div 2, y \div 2)

\* bitwise and of two words
And64(a, b) == <<BitAnd(a[1], b[1]), BitAnd(a[2], b[2]),
                 BitAnd(a[3], b[3]), BitAnd(a[4], b[4])>>

\* the sign bit of a word read as i64
Neg64(a) == a[4] >= Limb \div 2

\* i64 addition overflows: equal signs, and the sum has the other sign
SAddOverflows(a, b) ==
  /\ Neg64(a) = Neg64(b)
  /\ Neg64(Add64(a, b).val) # Neg64(a)

-----------------------------------------------------------------------------
(* constants of the ELF format and of the source *)

R_TYPE_MASK == <<65535, 32767, 0, 0>>     \* 0x7fffffff
DT_REL == 17
DT_RELSZ == 18
DT_RELA == 7
DT_RELASZ == 8
R_X86_64_RELATIVE == 8
SizeofDyn == 16       \* Dyn  { d_tag, d_val }
SizeofRel == 16       \* Rel  { r_offset, r_info }
SizeofRela == 24      \* Rela { r_offset, r_info, r_addend }
SizeofWord == 8       \* usize / u64
PT_DYNAMIC == 2
AT_PHDR == 3
AT_PHENT == 4
AT_PHNUM == 5
OffPVaddr == 16       \* ProgramHeader { p_type: u32, p_flags: u32, p_offset, p_vaddr, ... }

\* Option<u64>
None == <<>>
Some(v) == <<v>>

\* the address p + n bytes
At(p, n) == Add64(p, W(n)).val

\* the address of element idx (a word) of an array of elements of size bytes
Elem(p, idx, size) == Add64(p, Mul64(idx, size)).val

\* a + b panics in a build with overflow checks when it overflows
AddPanics(a, b) == overflow_checks /\ Add64(a, b).carry = 1
SubPanics(a, b) == overflow_checks /\ Sub64(a, b).borrow = 1
SAddPanics(a, b) == overflow_checks /\ SAddOverflows(a, b)

\* a filter that lets R_X86_64_JUMP_SLOT (7) pass as well
IsRelativeOrJumpSlot(r_info) ==
  And64(r_info, R_TYPE_MASK) \in {W(7), W(R_X86_64_RELATIVE)}

\* the filter of both iterators: r_info & R_TYPE_MASK == R_X86_64_RELATIVE as u64
IsRelative(r_info) == And64(r_info, R_TYPE_MASK) = W(R_X86_64_RELATIVE)

\* an arm that keeps the first value of a tag
DynMatchFirst(cur, d_tag, want, new) ==
  IF d_tag = W(want) /\ cur \in {None, ZERO} THEN new ELSE cur

\* one arm of the match on d_tag: the local keeps its value unless the tag is want
DynMatch(cur, d_tag, want, new) == IF d_tag = W(want) THEN new ELSE cur

\* a count that rounds up
EntryCountCeil(d_val, size) == Div64(Add64(d_val, W(size - 1)).val, size)

\* d_val as usize / size_of::<Rel>()
EntryCount(d_val, size) == Div64(d_val, size)

\* a write of the load bias alone
RelValueOverwrite(old, b) == b

\* a write that leaves alone a value that is not below the load bias
RelValueGuarded(old, b) == IF Lt64(old, b) THEN Add64(old, b).val ELSE old

\* a write of the value read
RelValueKeep(old, b) == old

\* rel_addr.write(rel_addr.read() + base)
RelValue(old, b) == Add64(old, b).val

\* a write that adds to the value read, as the REL form does
RelaValueAdd(old, b, r_addend) == Add64(old, Add64(b, r_addend).val).val

\* rel_addr_0.write((base as i64 + rela.r_addend) as u64)
RelaValue(old, b, r_addend) == Add64(b, r_addend).val

-----------------------------------------------------------------------------
(* inner_dyn_reloc *)

\* the locals of inner_dyn_reloc at its entry
EngineEntry(ds) ==
  /\ dynv' = ds
  /\ dt_rel' = None
  /\ dt_relsz' = ZERO
  /\ dt_rela' = None
  /\ dt_relasz' = ZERO
  /\ rels' = ZERO
  /\ relas' = ZERO
  /\ k' = ZERO

\* the panic of an arithmetic overflow
Panic ==
  /\ pc' = "overflow"
  /\ UNCHANGED <<mem, written, applied>>

\* one iteration of the loop over the dynamic table
DynScan ==
  /\ pc = "dyn_scan"
  /\ dynread' = dynread \cup {dynv}
  /\ LET d_tag == mem[dynv]
         d_val == mem[At(dynv, 8)]
     IN  IF d_tag = ZERO
         THEN /\ pc' = "rel"
              /\ UNCHANGED <<dynv, dt_rel, dt_relsz, dt_rela, dt_relasz>>
         ELSE /\ pc' = "dyn_scan"
              /\ dt_rel' = DynMatch(dt_rel, d_tag, DT_REL, Some(d_val))
              /\ dt_relsz' = DynMatch(dt_relsz, d_tag, DT_RELSZ, EntryCount(d_val, SizeofRel))
              /\ dt_rela' = DynMatch(dt_rela, d_tag, DT_RELA, Some(d_val))
              /\ dt_relasz' = DynMatch(dt_relasz, d_tag, DT_RELASZ, EntryCount(d_val, SizeofRela))
              /\ dynv' = At(dynv, SizeofDyn)
  /\ UNCHANGED <<mem, caller, overflow_checks, dynamic_section, base, rels, relas, k,
                 mem0, mem1, calls, invoked, written, visited, applied>>
  /\ UNCHANGED rcrtVars

\* if let Some(dt_rel) = dt_rel { let rels = from_raw_parts((base + dt_rel) ...) }
RelSlice ==
  /\ pc = "rel"
  /\ IF dt_rel = None
     THEN pc' = "rela" /\ UNCHANGED rels
     ELSE IF AddPanics(base, dt_rel[1])
          THEN pc' = "overflow" /\ UNCHANGED rels
          ELSE pc' = "rel_iter" /\ rels' = Add64(base, dt_rel[1]).val
  /\ k' = ZERO
  /\ UNCHANGED <<mem, caller, overflow_checks, dynamic_section, base, dynv,
                 dt_rel, dt_relsz, dt_rela, dt_relasz, relas,
                 mem0, mem1, calls, invoked, written, visited, applied, dynread>>
  /\ UNCHANGED rcrtVars

\* one element of rels.iter().filter(..).for_each(..)
RelIter ==
  /\ pc = "rel_iter"
  /\ IF ~ Lt64(k, dt_relsz)
     THEN /\ pc' = "rela"
          /\ UNCHANGED <<mem, k, written, visited, applied>>
     ELSE LET rel == Elem(rels, k, SizeofRel)
              r_offset == mem[rel]
              r_info == mem[At(rel, 8)]
              rel_addr == Add64(base, r_offset).val
          IN  /\ visited' = visited \cup {<<"rel", rel>>}
              /\ k' = Add64(k, W(1)).val
              /\ IF ~ IsRelative(r_info)
                 THEN pc' = "rel_iter" /\ UNCHANGED <<mem, written, applied>>
                 ELSE IF AddPanics(base, r_offset) \/ AddPanics(mem[rel_addr], base)
                      THEN Panic
                      ELSE /\ pc' = "rel_iter"
                           /\ mem' = [mem EXCEPT ![rel_addr] = RelValue(mem[rel_addr], base)]
                           /\ written' = written \cup {rel_addr}
                           /\ applied' = applied \cup {<<"rel", rel>>}
  /\ UNCHANGED <<caller, overflow_checks, dynamic_section, base, dynv,
                 dt_rel, dt_relsz, dt_rela, dt_relasz, rels, relas,
                 mem0, mem1, calls, invoked, dynread>>
  /\ UNCHANGED rcrtVars

\* if let Some(dt_rela) = dt_rela { let relas = from_raw_parts((base + dt_rela) ...) }
RelaSlice ==
  /\ pc = "rela"
  /\ IF dt_rela = None
     THEN pc' = "ret" /\ UNCHANGED relas
     ELSE IF AddPanics(base, dt_rela[1])
          THEN pc' = "overflow" /\ UNCHANGED relas
          ELSE pc' = "rela_iter" /\ relas' = Add64(base, dt_rela[1]).val
  /\ k' = ZERO
  /\ UNCHANGED <<mem, caller, overflow_checks, dynamic_section, base, dynv,
                 dt_rel, dt_relsz, dt_rela, dt_relasz, rels,
                 mem0, mem1, calls, invoked, written, visited, applied, dynread>>
  /\ UNCHANGED rcrtVars

\* one element of relas.iter().filter(..).for_each(..)
RelaIter ==
  /\ pc = "rela_iter"
  /\ IF ~ Lt64(k, dt_relasz)
     THEN /\ pc' = "ret"
          /\ UNCHANGED <<mem, k, written, visited, applied>>
     ELSE LET rela == Elem(relas, k, SizeofRela)
              r_offset == mem[rela]
              r_info == mem[At(rela, 8)]
              r_addend == mem[At(rela, 16)]
              rel_addr_0 == Add64(base, r_offset).val
          IN  /\ visited' = visited \cup {<<"rela", rela>>}
              /\ k' = Add64(k, W(1)).val
              /\ IF ~ IsRelative(r_info)
                 THEN pc' = "rela_iter" /\ UNCHANGED <<mem, written, applied>>
                 ELSE IF AddPanics(base, r_offset) \/ SAddPanics(base, r_addend)
                      THEN Panic
                      ELSE /\ pc' = "rela_iter"
                           /\ mem' = [mem EXCEPT ![rel_addr_0] = RelaValue(mem[rel_addr_0], base, r_addend)]
                           /\ written' = written \cup {rel_addr_0}
                           /\ applied' = applied \cup {<<"rela", rela>>}
  /\ UNCHANGED <<caller, overflow_checks, dynamic_section, base, dynv,
                 dt_rel, dt_relsz, dt_rela, dt_relasz, rels, relas,
                 mem0, mem1, calls, invoked, dynread>>
  /\ UNCHANGED rcrtVars

-----------------------------------------------------------------------------
(* dyn_reloc: the engine called on its own *)

MaxCalls == 2

\* dyn_reloc returns to its caller
DynRelocReturn ==
  /\ pc = "ret"
  /\ caller = "dyn_reloc"
  /\ pc' = "returned"
  /\ calls' = calls + 1
  /\ mem1' = IF calls = 0 THEN mem ELSE mem1
  /\ UNCHANGED <<mem, caller, overflow_checks, dynamic_section, base,
                 mem0, invoked, written, visited, applied, dynread>>
  /\ UNCHANGED engineVars
  /\ UNCHANGED rcrtVars

\* the caller applies dyn_reloc again, with the same arguments
DynRelocAgain ==
  /\ pc = "returned"
  /\ calls < MaxCalls
  /\ pc' = "dyn_scan"
  /\ EngineEntry(dynamic_section)
  /\ written' = {}
  /\ visited' = {}
  /\ applied' = {}
  /\ dynread' = {}
  /\ UNCHANGED <<mem, caller, overflow_checks, dynamic_section, base,
                 mem0, mem1, calls, invoked>>
  /\ UNCHANGED rcrtVars

-----------------------------------------------------------------------------
(* memory images *)

RECURSIVE Words(_, _)
\* the <<address, word>> pairs of the words of s laid out from address a on
Words(a, s) ==
  IF s = <<>> THEN {}
  ELSE {<<a, Head(s)>>} \cup Words(At(a, SizeofWord), Tail(s))

RECURSIVE Flat(_)
\* the words of a sequence of structs
Flat(s) == IF s = <<>> THEN <<>> ELSE Head(s) \o Flat(Tail(s))

\* the memory made of a set of <<address, word>> pairs
Image(pairs) ==
  [a \in {p[1] : p \in pairs} |-> (CHOOSE p \in pairs : p[1] = a)[2]]

SeqsUpTo(S, n) == UNION {[1..m -> S] : m \in 0..n}

\* s, continued by the elements of fill up to the length of fill
Padded(s, fill) == s \o SubSeq(fill, Len(s) + 1, Len(fill))

\* bounds of the inputs
MaxRel == 2       \* entries of a REL table
MaxRela == 2      \* entries of a RELA table
MaxDyn == 3       \* entries of a dynamic table before its terminator

\* link-time layout of the images: the dynamic section, the REL table, the
\* RELA table and the data cells
DynVaddr == W(256)
RelVaddr == W(512)
RelaVaddr == W(768)
DataVaddr == W(1024)
Cell(n) == At(DataVaddr, SizeofWord * n)

Bases == {ZERO, W(4096), <<0, 0, 0, 32768>>}
CellVals == {W(8192), WNeg(2048)}

\* r_info: type 8; symbol 1, type 8; type 0x80000008; type 7
RelInfos == {W(R_X86_64_RELATIVE), <<R_X86_64_RELATIVE, 0, 1, 0>>,
             <<R_X86_64_RELATIVE, 32768, 0, 0>>, W(7)}
RelaInfos == {W(R_X86_64_RELATIVE), W(7)}
Addends == {W(8192), WNeg(16)}

\* entries on two cells: on both the types 8 and 7, on the first every r_info
RelEntries ==
  {<<Cell(c), inf>> : c \in 0..1, inf \in {W(R_X86_64_RELATIVE), W(7)}}
  \cup {<<Cell(0), inf>> : inf \in RelInfos}
\* entries on two cells: type 8 with every addend, type 7 with one
RelaEntries ==
  {<<Cell(c), W(R_X86_64_RELATIVE), a>> : c \in 0..1, a \in Addends}
  \cup {<<Cell(c), inf, W(8192)>> : c \in 0..1, inf \in RelaInfos}

\* what the regions hold where an input does not choose it
FillRel == [j \in 1..(MaxRel + 2) |-> <<Cell(j + 1), W(R_X86_64_RELATIVE)>>]
FillRela == [j \in 1..(MaxRela + 2) |->
               <<Cell(j + MaxRel + 3), W(R_X86_64_RELATIVE), W(4096 * j)>>]
FillData == [j \in 1..(MaxRel + MaxRela + 6) |-> W(8192 + j)]

DynEntry(tag, val) == <<W(tag), val>>
Terminator == <<ZERO, ZERO>>

\* the image of a static PIE loaded at bias b: the dynamic table dyn, its
\* terminator, an entry behind the terminator, and the two tables
EnginePairs(b, dyn, rel, rela, data) ==
  Words(Add64(b, DynVaddr).val,
        Flat(dyn \o <<Terminator, DynEntry(DT_RELA, RelaVaddr), Terminator>>))
  \cup Words(Add64(b, RelVaddr).val, Flat(Padded(rel, FillRel)))
  \cup Words(Add64(b, RelaVaddr).val, Flat(Padded(rela, FillRela)))
  \cup Words(Add64(b, DataVaddr).val, Padded(data, FillData))

EngineImage(b, dyn, rel, rela, data) == Image(EnginePairs(b, dyn, rel, rela, data))

\* the state at the entry of dyn_reloc (who = "dyn_reloc", called with the
\* dynamic section ds and the load bias b) or of rcrt (who = "rcrt", called
\* with the dynamic section ds and the stack pointer stack)
Entry(who, oc, m, ds, b, stack) ==
  /\ mem = m
  /\ mem0 = m
  /\ mem1 = <<>>
  /\ pc = IF who = "rcrt" THEN "argc" ELSE "dyn_scan"
  /\ caller = who
  /\ overflow_checks = oc
  /\ dynamic_section = ds
  /\ base = b
  /\ dynv = ds
  /\ dt_rel = None
  /\ dt_relsz = ZERO
  /\ dt_rela = None
  /\ dt_relasz = ZERO
  /\ rels = ZERO
  /\ relas = ZERO
  /\ k = ZERO
  /\ sp = stack
  /\ i = ZERO
  /\ auxv_ptr = ZERO
  /\ ph = ZERO
  /\ phentsize = ZERO
  /\ phnum = ZERO
  /\ calls = 0
  /\ invoked = 0
  /\ written = {}
  /\ visited = {}
  /\ applied = {}
  /\ dynread = {}
  /\ examined = 0

\* the state at the call dyn_reloc(b + DynVaddr, b)
EngineCall(b, oc, m) == Entry("dyn_reloc", oc, m, Add64(b, DynVaddr).val, b, ZERO)

\* dynamic tables naming only a REL table
InitRelOnly ==
  \E b \in Bases, oc \in BOOLEAN, rel \in SeqsUpTo(RelEntries, MaxRel), v \in CellVals :
    EngineCall(b, oc,
      EngineImage(b, <<DynEntry(DT_REL, RelVaddr),
                       DynEntry(DT_RELSZ, W(SizeofRel * Len(rel)))>>,
                  rel, <<>>, <<v, v>>))

\* dynamic tables naming only a RELA table
InitRelaOnly ==
  \E b \in Bases, oc \in BOOLEAN, rela \in SeqsUpTo(RelaEntries, MaxRela), v \in CellVals :
    EngineCall(b, oc,
      EngineImage(b, <<DynEntry(DT_RELASZ, W(SizeofRela * Len(rela))),
                       DynEntry(DT_RELA, RelaVaddr)>>,
                  <<>>, rela, <<v, v>>))

\* dynamic tables naming both tables
InitBoth ==
  \E b \in Bases, oc \in BOOLEAN, r \in RelEntries, v \in CellVals,
     ra \in RelaEntries \cup {<<Cell(0), <<R_X86_64_RELATIVE, 32768, 0, 0>>, W(8192)>>} :
    EngineCall(b, oc,
      EngineImage(b, <<DynEntry(DT_REL, RelVaddr), DynEntry(DT_RELSZ, W(SizeofRel)),
                       DynEntry(DT_RELA, RelaVaddr), DynEntry(DT_RELASZ, W(SizeofRela))>>,
                  <<r>>, <<ra>>, <<v, v>>))

\* the entries of the dynamic tables of InitDyn: both tables at two
\* addresses or sizes each, sizes that are no multiple of the entry size, and
\* a tag the engine does not know (DT_DEBUG)
DynEntries ==
  {DynEntry(DT_REL, RelVaddr), DynEntry(DT_REL, At(RelVaddr, SizeofRel)),
   DynEntry(DT_RELSZ, W(SizeofRel)), DynEntry(DT_RELSZ, W(2 * SizeofRel + 1)),
   DynEntry(DT_RELA, RelaVaddr), DynEntry(DT_RELASZ, W(2 * SizeofRela + 2)),
   DynEntry(21, DataVaddr)}

\* any dynamic table of up to MaxDyn entries, over fixed tables on which no
\* addition overflows
InitDyn ==
  \E dyn \in SeqsUpTo(DynEntries, MaxDyn) :
    EngineCall(W(4096), TRUE, EngineImage(W(4096), dyn, <<>>, <<>>, <<>>))

-----------------------------------------------------------------------------
(* rcrt *)

\* (*ph).p_type: the u32 at offset 0 of a ProgramHeader, little-endian
P_type(word) == <<word[1], word[2]>>
U32(n) == <<n % Limb, n \div Limb>>

\* let argc = *sp; let argv = sp.add(1); let mut i = argc + 1;
RcrtStart ==
  /\ pc = "argc"
  /\ LET argc == mem[sp]
     IN  IF AddPanics(argc, W(1))
         THEN pc' = "overflow" /\ UNCHANGED i
         ELSE pc' = "env" /\ i' = Add64(argc, W(1)).val
  /\ UNCHANGED <<mem, caller, overflow_checks, dynamic_section, base,
                 sp, auxv_ptr, ph, phentsize, phnum, examined,
                 mem0, mem1, calls, invoked, written, visited, applied, dynread>>
  /\ UNCHANGED engineVars

\* while *argv.add(i) != 0 { i += 1 }  let auxv_ptr = argv.add(i + 1);
EnvScan ==
  /\ pc = "env"
  /\ LET argv == At(sp, SizeofWord)
     IN  IF mem[Elem(argv, i, SizeofWord)] # ZERO
         THEN /\ IF AddPanics(i, W(1))
                 THEN pc' = "overflow" /\ UNCHANGED i
                 ELSE pc' = "env" /\ i' = Add64(i, W(1)).val
              /\ UNCHANGED auxv_ptr
         ELSE IF AddPanics(i, W(1))
              THEN pc' = "overflow" /\ UNCHANGED <<i, auxv_ptr>>
              ELSE /\ pc' = "auxv"
                   /\ auxv_ptr' = Elem(argv, Add64(i, W(1)).val, SizeofWord)
                   /\ i' = ZERO
  /\ UNCHANGED <<mem, caller, overflow_checks, dynamic_section, base,
                 sp, ph, phentsize, phnum, examined,
                 mem0, mem1, calls, invoked, written, visited, applied, dynread>>
  /\ UNCHANGED engineVars

\* one arm of the match on an auxiliary-vector key
AuxMatch(cur, key, want, val) == IF key = W(want) THEN val ELSE cur

\* one iteration of the loop over the auxiliary vector; leaving the loop
\* runs  let mut ph = ph as *const ProgramHeader; let mut i = phnum;
AuxvScan ==
  /\ pc = "auxv"
  /\ LET key == mem[Elem(auxv_ptr, i, SizeofWord)]
         val == mem[Elem(auxv_ptr, Add64(i, W(1)).val, SizeofWord)]
     IN  IF key = ZERO
         THEN /\ pc' = "phdr"
              /\ i' = phnum
              /\ UNCHANGED <<ph, phentsize, phnum>>
         ELSE /\ ph' = AuxMatch(ph, key, AT_PHDR, val)
              /\ phentsize' = AuxMatch(phentsize, key, AT_PHENT, val)
              /\ phnum' = AuxMatch(phnum, key, AT_PHNUM, val)
              /\ IF ph' # ZERO /\ phentsize' # ZERO /\ phnum' # ZERO
                 THEN pc' = "phdr" /\ i' = phnum'
                 ELSE IF AddPanics(i, W(2))
                      THEN pc' = "overflow" /\ UNCHANGED i
                      ELSE pc' = "auxv" /\ i' = Add64(i, W(2)).val
  /\ UNCHANGED <<mem, caller, overflow_checks, dynamic_section, base,
                 sp, auxv_ptr, examined,
                 mem0, mem1, calls, invoked, written, visited, applied, dynread>>
  /\ UNCHANGED engineVars

\* a call of pre_main() without the call of inner_dyn_reloc before it
FoundDynamicSkipsEngine == "ret"

\* where rcrt continues when it has found the PT_DYNAMIC header: in
\* inner_dyn_reloc, and behind it in pre_main()
FoundDynamic == "dyn_scan"

\* a fall through to pre_main() in place of unreachable!()
ExhaustedFallsThrough == "ret"

\* where rcrt continues behind the loop over the program headers
Exhausted == "unreachable"

\* let base = dynv as u64 - (*ph).p_vaddr
LoadBias(ds, p_vaddr) == Sub64(ds, p_vaddr).val

\* one iteration of  while i != 0 { if (*ph).p_type == PT_DYNAMIC {..} .. }
PhdrWalk ==
  /\ pc = "phdr"
  /\ i # ZERO
  /\ examined' = examined + 1
  /\ IF P_type(mem[ph]) = U32(PT_DYNAMIC)
     THEN LET p_vaddr == mem[At(ph, OffPVaddr)]
          IN  IF SubPanics(dynamic_section, p_vaddr)
              THEN /\ pc' = "overflow"
                   /\ UNCHANGED <<base, i, ph>>
                   /\ UNCHANGED engineVars
              ELSE /\ base' = LoadBias(dynamic_section, p_vaddr)
                   /\ pc' = FoundDynamic
                   /\ EngineEntry(dynamic_section)
                   /\ UNCHANGED <<i, ph>>
     ELSE /\ IF AddPanics(ph, phentsize)
             THEN pc' = "overflow" /\ UNCHANGED <<i, ph>>
             ELSE /\ pc' = "phdr"
                  /\ ph' = Add64(ph, phentsize).val
                  /\ i' = Sub64(i, W(1)).val
          /\ UNCHANGED base
          /\ UNCHANGED engineVars
  /\ UNCHANGED <<mem, caller, overflow_checks, dynamic_section,
                 sp, auxv_ptr, phentsize, phnum,
                 mem0, mem1, calls, invoked, written, visited, applied, dynread>>

\* unreachable!() behind the loop over the program headers
Unreachable ==
  /\ pc = "phdr"
  /\ i = ZERO
  /\ pc' = Exhausted
  /\ UNCHANGED <<mem, caller, overflow_checks, dynamic_section, base,
                 mem0, mem1, calls, invoked, written, visited, applied, dynread>>
  /\ UNCHANGED engineVars
  /\ UNCHANGED rcrtVars

\* pre_main(), which never returns
CallPreMain ==
  /\ pc = "ret"
  /\ caller = "rcrt"
  /\ pc' = "pre_main"
  /\ invoked' = invoked + 1
  /\ UNCHANGED <<mem, caller, overflow_checks, dynamic_section, base,
                 mem0, mem1, calls, written, visited, applied, dynread>>
  /\ UNCHANGED engineVars
  /\ UNCHANGED rcrtVars

InitEngine == InitRelOnly \/ InitRelaOnly \/ InitBoth \/ InitDyn

-----------------------------------------------------------------------------
(* inputs of rcrt *)

MaxArgc == 2      \* arguments on the initial stack
MaxEnv == 1       \* environment pointers on the initial stack
MaxAux == 4       \* entries of the auxiliary vector before AT_NULL
MaxPh == 2        \* program headers

StackAddr == W(28672)
PhdrVaddr == W(64)
SizeofPhdr == 56     \* size_of::<ProgramHeader>()
\* p_type of the headers: PT_LOAD (1) and PT_DYNAMIC
PhTypes == {1, PT_DYNAMIC}

\* the initial stack: argc, argv, NULL, envp, NULL, auxv, AT_NULL
Stack(argc, nenv, aux) ==
  <<W(argc)>> \o [j \in 1..argc |-> W(32512 + j)] \o <<ZERO>>
  \o [j \in 1..nenv |-> W(32640 + j)] \o <<ZERO>>
  \o Flat(aux) \o <<ZERO, ZERO>>

\* a ProgramHeader of type t and virtual address va (p_flags is 6)
Phdr(t, va) == <<<<t, 0, 6, 0>>, ZERO, va, va, W(256), W(256), W(8)>>

AuxEntries(phaddr) ==
  {<<W(AT_PHDR), phaddr>>, <<W(AT_PHENT), W(SizeofPhdr)>>, <<W(6), W(4096)>>}   \* 6 is AT_PAGESZ
  \cup {<<W(AT_PHNUM), W(n)>> : n \in 0..MaxPh}

\* auxiliary vectors with each key at most once; one that sets AT_PHNUM to a
\* number of headers also names their address
AuxVectors(phaddr) ==
  {aux \in SeqsUpTo(AuxEntries(phaddr), MaxAux) :
     /\ \A x, y \in DOMAIN aux : x # y => aux[x][1] # aux[y][1]
     /\ (\E x \in DOMAIN aux : aux[x][1] = W(AT_PHNUM) /\ aux[x][2] # ZERO)
          => (\E x \in DOMAIN aux : aux[x][1] = W(AT_PHDR))}

\* the three keys rcrt looks for, in the order the kernel writes them
AuxUsual(phaddr, n) ==
  <<<<W(AT_PHDR), phaddr>>, <<W(AT_PHENT), W(SizeofPhdr)>>, <<W(AT_PHNUM), W(n)>>>>

\* the state at the call rcrt(ds, StackAddr, pre_main)
RcrtCall(oc, pairs, ds) == Entry("rcrt", oc, Image(pairs), ds, ZERO, StackAddr)

\* the image of InitArgs and InitAux: one REL entry, loaded at bias 0x1000
StackImage(types) ==
  Words(Add64(W(4096), PhdrVaddr).val, Flat([j \in 1..MaxPh |-> Phdr(types[j], DynVaddr)]))
  \cup EnginePairs(W(4096), <<DynEntry(DT_REL, RelVaddr), DynEntry(DT_RELSZ, W(SizeofRel))>>,
                   <<>>, <<>>, <<>>)

\* any number of arguments and environment pointers
InitArgs ==
  \E argc \in 0..MaxArgc, nenv \in 0..MaxEnv, oc \in BOOLEAN,
     types \in [1..MaxPh -> PhTypes] :
    RcrtCall(oc,
      Words(StackAddr, Stack(argc, nenv, AuxUsual(Add64(W(4096), PhdrVaddr).val, MaxPh)))
      \cup StackImage(types),
      Add64(W(4096), DynVaddr).val)

\* any auxiliary vector and program header table
InitAux ==
  \E types \in [1..MaxPh -> PhTypes],
     aux \in AuxVectors(Add64(W(4096), PhdrVaddr).val) :
    RcrtCall(FALSE,
      Words(StackAddr, Stack(1, 0, aux)) \cup StackImage(types),
      Add64(W(4096), DynVaddr).val)

\* the usual stack, over dynamic tables of up to MaxDyn - 1 entries
InitImage ==
  \E b \in {ZERO, W(4096)}, oc \in BOOLEAN, v \in CellVals,
     dyn \in SeqsUpTo({DynEntry(DT_REL, RelVaddr), DynEntry(DT_RELSZ, W(2 * SizeofRel + 1)),
                       DynEntry(DT_RELA, RelaVaddr), DynEntry(DT_RELASZ, W(2 * SizeofRela + 2))},
                      MaxDyn - 1) :
    LET phaddr == Add64(b, PhdrVaddr).val
    IN  RcrtCall(oc,
          Words(StackAddr, Stack(1, 1, AuxUsual(phaddr, MaxPh)))
          \cup Words(phaddr, Flat([j \in 1..MaxPh |->
                       Phdr(IF j = MaxPh THEN PT_DYNAMIC ELSE 1, DynVaddr)]))
          \cup EnginePairs(b, dyn, <<>>, <<>>, <<v, v, v>>),
          Add64(b, DynVaddr).val)

\* a PT_DYNAMIC header whose p_vaddr lies above the dynamic section
InitBelow ==
  \E oc \in BOOLEAN :
    RcrtCall(oc,
      Words(StackAddr, Stack(1, 0, AuxUsual(PhdrVaddr, 1)))
      \cup Words(PhdrVaddr, Flat(<<Phdr(PT_DYNAMIC, W(8192))>>))
      \cup EnginePairs(ZERO, <<>>, <<>>, <<>>, <<>>),
      DynVaddr)

\* argc = 1, no environment, one PT_DYNAMIC header of virtual address V, the
\* dynamic section at V + 0x1000, one REL entry of r_offset 0x10 whose target
\* holds 0x2000
VSet == {ZERO, W(1024), W(8192)}

InitScenario ==
  \E V \in VSet, oc \in BOOLEAN :
    LET b == W(4096)
        phaddr == Add64(b, PhdrVaddr).val
        ds == Add64(V, b).val
    IN  RcrtCall(oc,
          Words(StackAddr, Stack(1, 0, AuxUsual(phaddr, 1)))
          \cup Words(phaddr, Flat(<<Phdr(PT_DYNAMIC, V)>>))
          \cup Words(ds, Flat(<<DynEntry(DT_REL, RelVaddr), DynEntry(8192, ZERO),
                                DynEntry(DT_RELSZ, W(SizeofRel)), Terminator>>))
          \cup Words(Add64(b, RelVaddr).val, <<W(16), W(R_X86_64_RELATIVE)>>)
          \cup (IF V = ZERO THEN {} ELSE {<<At(b, 16), W(8192)>>}),
          ds)

InitRcrt == InitArgs \/ InitAux \/ InitImage \/ InitBelow \/ InitScenario

-----------------------------------------------------------------------------
(* the program *)

Init == InitEngine \/ InitRcrt

Next ==
  \/ RcrtStart
  \/ EnvScan
  \/ AuxvScan
  \/ PhdrWalk
  \/ Unreachable
  \/ DynScan
  \/ RelSlice
  \/ RelIter
  \/ RelaSlice
  \/ RelaIter
  \/ CallPreMain
  \/ DynRelocReturn
  \/ DynRelocAgain

Spec == Init /\ [][Next]_vars

\* direct calls of dyn_reloc over the dynamic tables of at most one entry
InitFew ==
  \E oc \in BOOLEAN, dyn \in SeqsUpTo(DynEntries, 1) :
    EngineCall(W(4096), oc, EngineImage(W(4096), dyn, <<>>, <<>>, <<>>))

\* the runs of rcrt and a few of dyn_reloc; the program is the only thread
\* and always takes its next step
LiveSpec == (InitRcrt \/ InitFew) /\ [][Next]_vars /\ WF_vars(Next)

-----------------------------------------------------------------------------
(* the input as the ELF format reads it, from the memory at the call *)

RECURSIVE DynTable(_, _)
\* the <<d_tag, d_val>> entries of the dynamic table at p, before its terminator
DynTable(m, p) ==
  IF m[p] = ZERO THEN <<>>
  ELSE <<<<m[p], m[At(p, 8)]>>>> \o DynTable(m, At(p, 16))

TheDyn == DynTable(mem0, dynamic_section)

\* the d_val of the last entry of tag t of the table T, None when there is none
LastOf(T, t) ==
  LET S == {j \in DOMAIN T : T[j][1] = W(t)}
  IN  IF S = {} THEN None ELSE Some(T[CHOOSE j \in S : \A j2 \in S : j2 <= j][2])

\* a word below 2^31 as a number
ToNat(w) == w[1] + Limb * w[2]

\* the number of whole entries of bytes each that the last size tag t records
WholeEntries(T, t, bytes) ==
  IF LastOf(T, t) = None THEN 0 ELSE ToNat(Div64(LastOf(T, t)[1], bytes))

\* the addresses of the entries of the REL and of the RELA table that T
\* names, under the load bias b, in table order
RelAddrsOf(T, b) ==
  IF LastOf(T, DT_REL) = None THEN <<>>
  ELSE LET start == Add64(b, LastOf(T, DT_REL)[1]).val
       IN  [j \in 1..WholeEntries(T, DT_RELSZ, 16) |-> At(start, 16 * (j - 1))]
RelaAddrsOf(T, b) ==
  IF LastOf(T, DT_RELA) = None THEN <<>>
  ELSE LET start == Add64(b, LastOf(T, DT_RELA)[1]).val
       IN  [j \in 1..WholeEntries(T, DT_RELASZ, 24) |-> At(start, 24 * (j - 1))]
RelAddrs == RelAddrsOf(TheDyn, base)
RelaAddrs == RelaAddrsOf(TheDyn, base)

\* the fields of the entry at address a
Offset(a) == mem0[a]
Info(a) == mem0[At(a, 8)]
Addend(a) == mem0[At(a, 16)]
Target(a) == Add64(base, Offset(a)).val

\* ELF64_R_TYPE(r_info) == R_X86_64_RELATIVE: the low 32 bits of r_info are 8
IsRelType(info) == info[1] = 8 /\ info[2] = 0
\* the low 31 bits of r_info are 8
Low31Is8(info) == info[1] = 8 /\ info[2] % 32768 = 0

\* the entries of both tables, as <<table, address>>
EntriesOf(ra, raa) ==
  {<<"rel", ra[j]>> : j \in DOMAIN ra} \cup {<<"rela", raa[j]>> : j \in DOMAIN raa}
Entries == EntriesOf(RelAddrs, RelaAddrs)

\* the engine has run once, to its end
Done == (pc = "returned" /\ calls = 1) \/ pc = "pre_main"

\* the number of entries of the table at addresses ra that target cell c
Mult(ra, c) == Cardinality({j \in DOMAIN ra : Target(ra[j]) = c})

\* the number of those that pass the type filter
PassMult(ra, c) ==
  Cardinality({j \in DOMAIN ra : Low31Is8(Info(ra[j])) /\ Target(ra[j]) = c})

\* T names a REL table and nothing else, and every entry of the table is of
\* type R_X86_64_RELATIVE
RelOnlyIn(T, ra) ==
  /\ \A j \in DOMAIN T : T[j][1] \in {W(DT_REL), W(DT_RELSZ)}
  /\ LastOf(T, DT_REL) # None
  /\ \A j \in DOMAIN ra : IsRelType(Info(ra[j]))
RelOnly == RelOnlyIn(TheDyn, RelAddrs)

-----------------------------------------------------------------------------
(* C1 *)

\* C1, as stated: after dyn_reloc over a REL-only table of relative entries,
\* each target cell holds its value before the call plus the load bias and
\* every other cell holds its value before the call.
C1_AsStated ==
  Done =>
    LET ra == RelAddrs
    IN  RelOnlyIn(TheDyn, ra) =>
          \A c \in DOMAIN mem :
            mem[c] = IF Mult(ra, c) > 0 THEN Add64(mem0[c], base).val ELSE mem0[c]

\* C1, amended: after dyn_reloc over a REL-only table of relative entries,
\* each cell holds its value before the call plus the load bias once for
\* every entry that targets it (modulo 2^64); so a cell no entry targets is
\* unchanged and a cell that one entry targets has gained the load bias.
C1_RelAddsBiasPerEntry ==
  Done =>
    LET ra == RelAddrs
    IN  RelOnlyIn(TheDyn, ra) =>
          \A c \in DOMAIN mem : mem[c] = Add64(mem0[c], Mul64(base, Mult(ra, c))).val

\* two entries of a REL-only table target one cell, under a load bias # 0
C1_Witness ==
  /\ Done
  /\ base # ZERO
  /\ LET ra == RelAddrs
     IN  /\ RelOnlyIn(TheDyn, ra)
         /\ \E c \in DOMAIN mem : Mult(ra, c) = 2 /\ mem[c] # mem0[c]

-----------------------------------------------------------------------------
(* C2 *)

\* C2, as stated: after dyn_reloc, the target cell of every RELA entry of
\* type R_X86_64_RELATIVE equals load bias + r_addend.
C2_AsStated ==
  Done =>
    LET raa == RelaAddrs
    IN  \A j \in DOMAIN raa :
          IsRelType(Info(raa[j])) => mem[Target(raa[j])] = Add64(base, Addend(raa[j])).val

\* C2, amended: after dyn_reloc, the target cell of a RELA entry of type
\* R_X86_64_RELATIVE equals load bias + r_addend (modulo 2^64), whatever it
\* held before, provided no later RELA entry that passes the type filter
\* targets the same cell (the last such entry decides).
C2_RelaOverwritesLastWins ==
  Done =>
    LET raa == RelaAddrs
    IN  \A j \in DOMAIN raa :
          ( /\ IsRelType(Info(raa[j]))
            /\ \A j2 \in DOMAIN raa :
                 (j2 > j /\ Low31Is8(Info(raa[j2]))) => Target(raa[j2]) # Target(raa[j]) )
            => mem[Target(raa[j])] = Add64(base, Addend(raa[j])).val

\* a relative RELA entry has overwritten a cell that held another value, and
\* the REL table had added the load bias to that cell before
C2_Witness ==
  /\ Done
  /\ base # ZERO
  /\ LET ra == RelAddrs
         raa == RelaAddrs
     IN  \E j \in DOMAIN raa :
           /\ IsRelType(Info(raa[j]))
           /\ mem0[Target(raa[j])] # mem[Target(raa[j])]
           /\ mem[Target(raa[j])] = Add64(base, Addend(raa[j])).val
           /\ <<"rela", raa[j]>> \in applied
           /\ \E j1 \in DOMAIN ra :
                /\ Target(ra[j1]) = Target(raa[j])
                /\ <<"rel", ra[j1]>> \in applied

-----------------------------------------------------------------------------
(* C3 *)

\* C3, as stated: an entry whose type, the low 32 bits of r_info, is not
\* R_X86_64_RELATIVE causes no write, and its target cell is unmodified
\* unless an entry of type R_X86_64_RELATIVE also targets it.
C3_AsStated ==
  Done =>
    LET E == Entries
    IN  \A e \in E :
          ~ IsRelType(Info(e[2])) =>
            /\ e \notin applied
            /\ (\A e2 \in E : IsRelType(Info(e2[2])) => Target(e2[2]) # Target(e[2]))
                 => mem[Target(e[2])] = mem0[Target(e[2])]

\* C3, amended: the type the engine compares is r_info & 0x7fffffff, the low
\* 31 bits of r_info. An entry whose low 31 bits are not R_X86_64_RELATIVE
\* causes no write, and its target cell is unmodified unless an entry whose
\* low 31 bits are R_X86_64_RELATIVE also targets it.
C3_ForeignTypesSkipped ==
  Done =>
    LET E == Entries
    IN  \A e \in E :
          ~ Low31Is8(Info(e[2])) =>
            /\ e \notin applied
            /\ (\A e2 \in E : Low31Is8(Info(e2[2])) => Target(e2[2]) # Target(e[2]))
                 => mem[Target(e[2])] = mem0[Target(e[2])]

\* a REL table where an entry of another type stands behind a relative entry
\* that was applied to another cell
C3_Witness ==
  /\ Done
  /\ base # ZERO
  /\ LET ra == RelAddrs
     IN  \E j \in DOMAIN ra :
           /\ ~ Low31Is8(Info(ra[j]))
           /\ mem[Target(ra[j])] = mem0[Target(ra[j])]
           /\ <<"rel", ra[j]>> \in visited
           /\ \E j1 \in DOMAIN ra :
                /\ j1 < j
                /\ Target(ra[j1]) # Target(ra[j])
                /\ <<"rel", ra[j1]>> \in applied

-----------------------------------------------------------------------------
(* C7 *)

\* dyn_reloc has returned from its second call
Twice == pc = "returned" /\ calls = 2

\* T names a REL table and no RELA table
RelTableOnly(T) == LastOf(T, DT_REL) # None /\ LastOf(T, DT_RELA) = None

\* C7, as stated: after a second application over a REL table, every target
\* cell of a relative entry differs from its value after one application.
C7_AsStated ==
  Twice =>
    LET T == TheDyn
        ra == RelAddrsOf(T, base)
    IN  RelTableOnly(T) =>
          \A j \in DOMAIN ra :
            IsRelType(Info(ra[j])) => mem[Target(ra[j])] # mem1[Target(ra[j])]

\* C7, amended: the second application adds to each cell, once more, the load
\* bias for every entry that passes the filter and targets it. So a cell
\* differs from its value after one application exactly when load bias times
\* the number of those entries is not 0 modulo 2^64; under a load bias of 0
\* the second application changes nothing.
C7_SecondApplicationAddsAgain ==
  Twice =>
    LET T == TheDyn
        ra == RelAddrsOf(T, base)
    IN  RelTableOnly(T) =>
          \A c \in DOMAIN mem :
            LET again == Mul64(base, PassMult(ra, c))
            IN  /\ mem[c] = Add64(mem1[c], again).val
                /\ (mem[c] # mem1[c]) <=> (again # ZERO)

\* a cell that one relative entry targets, after two applications under a
\* load bias # 0
C7_Witness ==
  /\ Twice
  /\ LET T == TheDyn
         ra == RelAddrsOf(T, base)
     IN  /\ RelTableOnly(T)
         /\ \E c \in DOMAIN mem :
              /\ PassMult(ra, c) = 1
              /\ mem[c] # mem1[c]
              /\ mem1[c] # mem0[c]

-----------------------------------------------------------------------------
(* C9 *)

\* the dynamic table records a DT_RELSZ that is no multiple of 16 or a
\* DT_RELASZ that is no multiple of 24
NonMultipleIn(T) ==
  \E j \in DOMAIN T :
    \/ T[j][1] = W(DT_RELSZ) /\ Mod64(T[j][2], 16) # 0
    \/ T[j][1] = W(DT_RELASZ) /\ Mod64(T[j][2], 24) # 0
NonMultiple == NonMultipleIn(TheDyn)

\* C9, as stated: with such a size dyn_reloc does not complete normally, and
\* pre_main is not invoked.
C9_AsStated == (pc = "ret" \/ calls > 0 \/ invoked > 0) => ~ NonMultiple

\* C9, amended: such a size is no error to dyn_reloc. The division truncates:
\* the engine visits the whole entries the size covers, size / 16 of the REL
\* table and size / 24 of the RELA table, and completes normally, so that
\* rcrt invokes pre_main; the engine ends otherwise only in the panic of an
\* arithmetic overflow, in a build with overflow checks.
C9_SizeTruncated ==
  /\ []((Done /\ NonMultiple) => visited = Entries)
  /\ [](pc = "overflow" => overflow_checks)
  /\ (pc = "dyn_scan" /\ NonMultiple) ~> (pc \in {"returned", "pre_main", "overflow"})

\* the engine has completed over a DT_RELSZ of 33 bytes: two entries visited
C9_Witness ==
  /\ Done
  /\ LastOf(TheDyn, DT_RELSZ) = Some(W(33))
  /\ Cardinality({e \in visited : e[1] = "rel"}) = 2

-----------------------------------------------------------------------------
(* C10 *)

\* the scan of the first call of the engine has ended
Scanned ==
  \/ calls = 0 /\ pc \in {"rel", "rel_iter", "rela", "rela_iter", "ret", "pre_main"}
  \/ Done

\* C10: the scan reads the entries up to the first terminator and none
\* behind it; when it has ended, each local holds the value of the last
\* entry of its tag (None or 0 entries when there is none), other tags having
\* no effect; and the entries the engine visits are those of the table at
\* load bias + last DT_REL with last DT_RELSZ / 16 entries and of the table
\* at load bias + last DT_RELA with last DT_RELASZ / 24 entries.
C10_ScanLastWins ==
  LET T == TheDyn
      DynAddrs == {At(dynamic_section, 16 * j) : j \in 0..Len(T)}
  IN  /\ dynread \subseteq DynAddrs
      /\ Scanned =>
           /\ dynread = DynAddrs
           /\ dt_rel = LastOf(T, DT_REL)
           /\ dt_rela = LastOf(T, DT_RELA)
           /\ dt_relsz = W(WholeEntries(T, DT_RELSZ, 16))
           /\ dt_relasz = W(WholeEntries(T, DT_RELASZ, 24))
      /\ Done => visited = EntriesOf(RelAddrsOf(T, base), RelaAddrsOf(T, base))

\* a table with two DT_REL entries of different values: the table the second
\* one names was patched
C10_Witness ==
  /\ Done
  /\ LET T == TheDyn
     IN  /\ \E j1, j2 \in DOMAIN T :
              /\ j1 < j2
              /\ T[j1][1] = W(DT_REL)
              /\ T[j2][1] = W(DT_REL)
              /\ T[j1][2] # T[j2][2]
              /\ dt_rel = Some(T[j2][2])
  /\ \E e \in applied : e[1] = "rel"

-----------------------------------------------------------------------------
(* the initial stack and the program headers, from the memory at the call *)

RECURSIVE BehindNull(_, _)
\* the address behind the first null word at or after p
BehindNull(m, p) ==
  IF m[p] = ZERO THEN At(p, 8) ELSE BehindNull(m, At(p, 8))

RECURSIVE AuxTable(_, _)
\* the <<key, value>> entries of the auxiliary vector at p, before AT_NULL
AuxTable(m, p) ==
  IF m[p] = ZERO THEN <<>>
  ELSE <<<<m[p], m[At(p, 8)]>>>> \o AuxTable(m, At(p, 16))

\* the auxiliary vector of the stack at sp: behind argc, the argc argument
\* pointers and their null, and the environment pointers and their null
TheAux == AuxTable(mem0, BehindNull(mem0, At(sp, 8 * (ToNat(mem0[sp]) + 2))))

\* the value of the key in the auxiliary vector A, 0 when it is absent
AuxVal(A, key) ==
  IF \E j \in DOMAIN A : A[j][1] = W(key)
  THEN A[CHOOSE j \in DOMAIN A : A[j][1] = W(key)][2]
  ELSE ZERO

\* the addresses of the AT_PHNUM program headers that A describes
HeadersOf(A) ==
  [j \in 1..ToNat(AuxVal(A, AT_PHNUM)) |->
     Add64(AuxVal(A, AT_PHDR), Mul64(AuxVal(A, AT_PHENT), j - 1)).val]

\* p_type of the header at address h is PT_DYNAMIC
IsDynamic(h) == mem0[h][1] = 2 /\ mem0[h][2] = 0

\* the program header table of a run of rcrt has a PT_DYNAMIC entry
HasDynamic ==
  LET H == HeadersOf(TheAux) IN \E j \in DOMAIN H : IsDynamic(H[j])

\* rcrt has ended in a trap
Trapped == pc \in {"unreachable", "overflow"}

-----------------------------------------------------------------------------
(* C4 *)

\* C4: in a run of rcrt pre_main is invoked at most once; when it is
\* invoked, the engine has visited every entry of both tables and applied
\* every one that passes the type filter; from then on no cell is written;
\* rcrt never returns, and every run reaches pre_main or a trap.
C4_PreMainAfterEngine ==
  /\ [](caller = "rcrt" =>
          /\ invoked <= 1
          /\ pc # "returned"
          /\ invoked = 1 =>
               /\ pc = "pre_main"
               /\ LET E == Entries
                  IN  /\ visited = E
                      /\ \A e \in E : Low31Is8(Info(e[2])) => e \in applied)
  /\ [][invoked >= 1 => (mem' = mem /\ written' = written /\ invoked' = invoked)]_vars
  /\ (caller = "rcrt") ~> (pc = "pre_main" \/ Trapped)

\* pre_main is invoked behind an engine that applied an entry
C4_Witness ==
  /\ caller = "rcrt"
  /\ pc = "pre_main"
  /\ invoked = 1
  /\ applied # {}
  /\ mem # mem0

-----------------------------------------------------------------------------
(* C5 *)

\* C5: when the program header table has no PT_DYNAMIC entry (AT_PHNUM may
\* be absent or 0), rcrt never runs the engine, never invokes pre_main and
\* writes no cell, and it reaches unreachable!() having examined AT_PHNUM
\* headers.
C5_NoDynamicTraps ==
  /\ []((caller = "rcrt" /\ ~ HasDynamic) =>
          /\ pc \in {"argc", "env", "auxv", "phdr", "unreachable"}
          /\ invoked = 0
          /\ dynread = {}
          /\ written = {}
          /\ mem = mem0
          /\ pc = "unreachable" => examined = ToNat(AuxVal(TheAux, AT_PHNUM)))
  /\ (caller = "rcrt" /\ ~ HasDynamic) ~> (pc = "unreachable")

\* the trap behind a table of two headers, none of them PT_DYNAMIC
C5_Witness ==
  /\ caller = "rcrt"
  /\ ~ HasDynamic
  /\ pc = "unreachable"
  /\ examined = 2
  /\ AuxVal(TheAux, AT_PHENT) # ZERO

-----------------------------------------------------------------------------
(* C6 *)

\* the auxiliary vector carries AT_PHDR, AT_PHENT and AT_PHNUM and the
\* program header table has a PT_DYNAMIC entry (the environment, the
\* auxiliary vector and the dynamic table of every input are terminated)
WellFormed ==
  /\ caller = "rcrt"
  /\ LET A == TheAux
     IN  /\ AuxVal(A, AT_PHDR) # ZERO
         /\ AuxVal(A, AT_PHENT) # ZERO
         /\ AuxVal(A, AT_PHNUM) # ZERO
  /\ HasDynamic

\* C6, as stated: on every well-formed input rcrt eventually invokes pre_main.
C6_AsStated == WellFormed ~> (pc = "pre_main")

\* C6, what the code does: on every well-formed input rcrt eventually invokes
\* pre_main, also over no or empty relocation tables, unless one of its
\* additions or subtractions overflows 64 bits in a build with overflow
\* checks, where it panics; a build without overflow checks wraps and always
\* reaches pre_main.
C6_ReachesPreMain ==
  /\ WellFormed ~> (pc = "pre_main" \/ (overflow_checks /\ pc = "overflow"))
  /\ (WellFormed /\ ~ overflow_checks) ~> (pc = "pre_main")

\* pre_main is invoked on a well-formed input whose dynamic table names no
\* relocation table
C6_Witness ==
  /\ WellFormed
  /\ pc = "pre_main"
  /\ TheDyn = <<>>
  /\ visited = {}
  /\ written = {}

-----------------------------------------------------------------------------
(* C8 *)

\* the virtual address V of the first program header
ScenarioV == mem0[At(HeadersOf(TheAux)[1], 16)]

\* the input of C8: argc = 1, one argument pointer, no environment, the three
\* keys, one PT_DYNAMIC header of virtual address V, the dynamic section at
\* V + 0x1000, no RELA table, one REL entry of type R_X86_64_RELATIVE and
\* r_offset 0x10 whose target, at load bias + r_offset, holds 0x2000
Scenario ==
  /\ caller = "rcrt"
  /\ mem0[sp] = W(1)
  /\ mem0[At(sp, 8)] # ZERO
  /\ mem0[At(sp, 16)] = ZERO
  /\ mem0[At(sp, 24)] = ZERO
  /\ LET A == TheAux
         H == HeadersOf(A)
         T == TheDyn
         ra == RelAddrsOf(T, W(4096))
     IN  /\ AuxVal(A, AT_PHDR) # ZERO
         /\ AuxVal(A, AT_PHENT) # ZERO
         /\ Len(H) = 1
         /\ IsDynamic(H[1])
         /\ dynamic_section = Add64(ScenarioV, W(4096)).val
         /\ LastOf(T, DT_RELA) = None
         /\ Len(ra) = 1
         /\ Offset(ra[1]) = W(16)
         /\ IsRelType(Info(ra[1]))
         /\ mem0[At(W(4096), 16)] = W(8192)

\* rcrt has computed the load bias
BiasKnown == pc \in {"dyn_scan", "rel", "rel_iter", "rela", "rela_iter", "ret", "pre_main"}

\* C8, as stated: the load bias is 0x1000 and, when the bootstrap has run,
\* the cell at V + 0x1000 + 0x10 holds 0x3000, for every V.
C8_AsStated ==
  Scenario =>
    /\ BiasKnown => base = W(4096)
    /\ pc = "pre_main" => mem[At(Add64(ScenarioV, W(4096)).val, 16)] = W(12288)

\* C8, amended: the load bias is 0x1000 and, when the bootstrap has run, the
\* target of the entry, the cell at load bias + r_offset = 0x1000 + 0x10,
\* holds 0x3000, for every V; this is the cell at V + 0x1000 + 0x10 only for
\* V = 0, and for another V that cell is left as it was.
C8_ScenarioPatched ==
  Scenario =>
    /\ BiasKnown => base = W(4096)
    /\ pc = "pre_main" =>
         /\ mem[At(W(4096), 16)] = W(12288)
         /\ \A c \in DOMAIN mem : c # At(W(4096), 16) => mem[c] = mem0[c]

\* the bootstrap has run over the input of C8 with V # 0
C8_Witness ==
  /\ Scenario
  /\ ScenarioV # ZERO
  /\ pc = "pre_main"
  /\ base = W(4096)
  /\ mem[At(W(4096), 16)] = W(12288)

====
